---- MODULE Spec2Model ----
(***************************************************************************)
(* discohook: the interaction dispatch engine.                             *)
(*   client.py   Client: the registries, the pending catalog, the lazy     *)
(*               synchronisation that runs at the head of every ASGI call  *)
(*   handler.py  handler: signature verification, routing, dispatch        *)
(* One asyncio event loop runs one task per request; a task is only        *)
(* interleaved with the others where it awaits network I/O or user code.   *)
(***************************************************************************)
EXTENDS Naturals, Integers, Sequences, FiniteSets, TLC

(* ---------------------------- bounds ----------------------------------- *)
NumRequests == 2      \* request tasks alive at the same time
NumCommands == 2      \* commands the application declares
MaxRemoteIds == 3     \* ids the remote platform issues

Requests == 1..NumRequests
Commands == 1..NumCommands

None == <<>>

(* ------------------- declared commands (fixtures) ----------------------- *)
\* ApplicationCommand.cog: even-numbered commands belong to a cog
HasCog(c) == c % 2 = 0
\* ApplicationCommand._subcommand_callbacks: odd-numbered commands carry "kick"
SubcommandCallbacks(c) == IF c % 2 = 1 THEN {"kick"} ELSE {}
\* A registered coroutine: the primary callback of a command, one of its
\* subcommand callbacks, its autocomplete callback, or a component's callback
Callback(kind, c, name) == [kind |-> kind, cmd |-> c, name |-> name]
\* ApplicationCommand._autocomplete_callback
AutocompleteCallback(c) == Callback("auto", c, "")
\* ApplicationCommand._callback
PrimaryCallback(c) == Callback("cmd", c, "")
\* ApplicationCommand._subcommand_callbacks[name]
SubcommandCallback(c, name) == Callback("sub", c, name)

(* ----------------------- wire format of a request ----------------------- *)
\* One option entry of data.options
Opt(n, t, v, f) == [name |-> n, type |-> t, value |-> v, focused |-> f]

\* An interaction payload (the JSON body once parsed).  Absent keys that the
\* handler reads with .get() are the empty sequence.
Inter(t, id, ct, opts, cid, comp, vals, flds) ==
  [type |-> t, id |-> id, cmdtype |-> ct, options |-> opts, custom_id |-> cid,
   component_type |-> comp, values |-> vals, fields |-> flds]

Payloads == <<
  Inter("ping", 0, "", <<>>, "", "", <<>>, {}),
  Inter("app_command", 1, "slash", <<>>, "", "", <<>>, {}),
  Inter("app_command", 1, "slash", <<Opt("kick", "subcommand", "", FALSE)>>, "", "", <<>>, {}),
  Inter("app_command", 1, "slash", <<Opt("ban", "subcommand", "", FALSE)>>, "", "", <<>>, {}),
  Inter("app_command", 2, "slash", <<Opt("amount", "integer", "7", FALSE)>>, "", "", <<>>, {}),
  Inter("app_command", 2, "user", <<Opt("amount", "integer", "7", FALSE)>>, "", "", <<>>, {}),
  Inter("app_command", 9, "slash", <<>>, "", "", <<>>, {}),
  Inter("component", 0, "", <<>>, "btn", "button", <<>>, {}),
  Inter("component", 0, "", <<>>, "sel", "select_menu", <<"red", "blue">>, {}),
  Inter("component", 0, "", <<>>, "zzz", "button", <<>>, {}),
  Inter("component", 0, "", <<>>, "btn", "text_input", <<>>, {}),
  Inter("modal_submit", 0, "", <<>>, "mod", "", <<>>, {"reason"}),
  Inter("modal_submit", 0, "", <<>>, "mod", "", <<>>, {}),
  Inter("modal_submit", 0, "", <<>>, "zzz", "", <<>>, {}),
  Inter("autocomplete", 1, "slash", <<Opt("a", "string", "x", TRUE)>>, "", "", <<>>, {}),
  Inter("autocomplete", 1, "slash",
        <<Opt("a", "string", "x", FALSE), Opt("b", "string", "y", TRUE)>>, "", "", <<>>, {}),
  Inter("autocomplete", 1, "slash", <<Opt("a", "string", "", TRUE)>>, "", "", <<>>, {}),
  Inter("autocomplete", 9, "slash", <<Opt("a", "string", "x", TRUE)>>, "", "", <<>>, {}),
  Inter("other", 0, "", <<>>, "", "", <<>>, {}),
  Inter("autocomplete", 2, "slash", <<Opt("a", "string", "x", TRUE)>>, "", "", <<>>, {}),
  Inter("app_command", 1, "message", <<Opt("ban", "subcommand", "", FALSE)>>, "", "", <<>>, {}) >>

Bodies == {<<k>> : k \in 1..Len(Payloads)}

\* request.json(): the body bytes parsed as JSON
Json(body) == Payloads[body[1]]

\* request.headers.get(name): the header's text, or Python None when not sent
Header(t) == [present |-> TRUE, text |-> t]
NoTimestamp == [present |-> FALSE, text |-> ""]

\* str(x) of a header value: str(None) is the text "None"
Str(h) == IF h.present THEN h.text ELSE "None"

\* str(timestamp).encode() + body
Message(timestamp, body) == <<Str(timestamp)>> \o body

\* The text of a well-formed (hex) signature made with key `k` over message `m`
SigText(k, m) == <<"hex", k, m>>
NotHexText == <<"nothex", "", <<"", 0>>>>
NoSignature == [present |-> FALSE, text |-> NotHexText]

\* bytes.fromhex(text): the bytes, or ValueError for text that is not hex
\* (str(None) = "None" is not hex)
IsHex(text) == text[1] = "hex"

PublicKey == "app"

\* VerifyKey(public_key).verify(message, signature)
VerifyPasses(message, sigbytes) == sigbytes[2] = PublicKey /\ sigbytes[3] = message

\* handler, lines 22-29: "pass", "BadSignatureError" or "ValueError"
\* (str(signature) of a missing header is "None", which is not hex)
Verification(request) ==
  LET text == IF request.signature.present THEN request.signature.text ELSE NotHexText
  IN IF ~IsHex(text) THEN "ValueError"
     ELSE IF VerifyPasses(Message(request.timestamp, request.body), text)
          THEN "pass" ELSE "BadSignatureError"

(* --------------------------- request inputs ----------------------------- *)
\* What the platform sends: timestamp, body and its signature over both
Signed(ts, body) ==
  [timestamp |-> Header(ts), body |-> body,
   signature |-> Header(SigText(PublicKey, Message(Header(ts), body)))]

\* Bodies on which the tampered and malformed variants are built
TamperBodies == {<<1>>, <<2>>}
OtherBody(b) == <<(b[1] % Len(Payloads)) + 1>>

Inputs ==
  {Signed("t1", b) : b \in Bodies}
  \cup {[Signed("t1", OtherBody(b)) EXCEPT !.body = b] : b \in TamperBodies}
  \cup {[Signed("t1", b) EXCEPT !.timestamp = Header("t2")] : b \in TamperBodies}
  \cup {[Signed("t1", b) EXCEPT !.timestamp = NoTimestamp] : b \in TamperBodies}
  \cup {[Signed("t1", b) EXCEPT !.signature =
            Header(SigText("forger", Message(Header("t1"), b)))] : b \in TamperBodies}
  \cup {[Signed("t1", b) EXCEPT !.signature = Header(NotHexText)] : b \in TamperBodies}
  \cup {[Signed("t1", b) EXCEPT !.signature = NoSignature] : b \in TamperBodies}

StartupInputs == {Signed("t1", <<1>>), Signed("t1", <<2>>)}

NoRequest == [timestamp |-> NoTimestamp, body |-> <<0>>, signature |-> NoSignature]

(* ------------------------------ components ------------------------------ *)
\* Button / SelectMenu / Modal objects, by custom_id, in declaration order
ComponentIds == <<"btn", "sel", "mod">>
ComponentCallback(k) == Callback("comp", 0, k)
\* Modal: the custom ids of its required fields
ModalFields(k) == IF k = "mod" THEN {"reason"} ELSE {}

VARIABLES
  token,                 \* Client.token (truthy or not)
  serving,               \* the ASGI server has started delivering calls
  qualified_commands,             \* Client._qualified_commands
  declared,              \* every command ever put in the pending catalog
  cmdId,                 \* ApplicationCommand.id of each command
  application_commands,  \* Client.application_commands: remote id -> command
  ui_factory,            \* Client.ui_factory: custom_id -> component callback
  populated_return,      \* Client._populated_return (application-wide slot)
  global_error_handler,  \* Client._global_error_handler
  remoteIds,             \* remote platform: the id it holds for each command
  nextId,                \* remote platform: number of ids issued
  submitted,             \* remote platform: each command was posted to it
                         \* "never", "once" or "again" (more than once)
  pc,                    \* position of each request task
  iter,                  \* __sync_cmds: index of the task's list iterator
  cur,                   \* __sync_cmds: the task's loop variable `command`
  replied,               \* the task's interaction has populated a reply
  cmdName,               \* ApplicationCommand.name of each command of the application
  awaited,               \* per task: the command whose callback it awaits, 0 if none
  event                  \* the latest step handler made: request, outcome

vars == <<token, cmdName, serving, qualified_commands, declared, cmdId, application_commands,
          ui_factory, populated_return, global_error_handler,
          remoteIds, nextId, submitted, pc, iter, cur, replied, awaited, event>>

clientVars == <<token, cmdName, qualified_commands, declared, cmdId, application_commands,
                ui_factory, populated_return, global_error_handler>>
remoteVars == <<remoteIds, nextId, submitted>>

(* ------------------------------ results --------------------------------- *)
\* What a request ends with.  kind: "response" a response built in handler,
\* "slot" the response read from Client._populated_return (owner: the live
\* request that populated it, 0 for a request that has already ended),
\* "None" handler returned None, "raised" an exception left the function.
NoResult == [kind |-> "pending", status |-> 0, owner |-> 0, body |-> "", flags |-> 0]
Response(status, body) ==
  [kind |-> "response", status |-> status, owner |-> 0, body |-> body, flags |-> 0]
ReturnedNone == [kind |-> "None", status |-> 0, owner |-> 0, body |-> "", flags |-> 0]
Raised(exc) == [kind |-> "raised", status |-> 0, owner |-> 0, body |-> exc, flags |-> 0]

\* Client._populated_return before anything was assigned to it
Unset == [set |-> FALSE, owner |-> 0, body |-> "", flags |-> 0]

\* The latest step of handler: which task, which step ("handle": the body
\* arrived, "return"/"raise": the awaited callback ended, "sync_error": the
\* request ended in __sync_cmds), the request, and what the step did
Event(r, step, request, verdict, isParsed, n, called, hasReplied, res, hook) ==
  [r |-> r, step |-> step, req |-> request, verdict |-> verdict, parsed |-> isParsed,
   lookups |-> n, calls |-> called, replied |-> hasReplied, result |-> res,
   hook |-> hook]
NoEvent == Event(0, "none", NoRequest, "", FALSE, 0, <<>>, FALSE, NoResult, <<>>)

(* -------------------------------- Init ---------------------------------- *)
\* ApplicationCommand(name=...): a name no other command of the application
\* has
OwnName(c) == <<"name", c>>

\* Client.__init__ (client.py 20-43).  _populated_return and
\* _global_error_handler are not assigned there: they do not exist yet.
Init ==
  /\ token \in BOOLEAN
  /\ cmdName = [c \in Commands |-> OwnName(c)]
  /\ serving = FALSE
  /\ qualified_commands = <<>>
  /\ declared = {}
  /\ cmdId = [c \in Commands |-> None]
  /\ application_commands = <<>>
  /\ ui_factory = <<>>
  /\ populated_return = Unset
  /\ global_error_handler = "unset"
  /\ remoteIds = [c \in Commands |-> None]
  /\ nextId = 0
  /\ submitted = [c \in Commands |-> "never"]
  /\ pc = [r \in Requests |-> "idle"]
  /\ iter = [r \in Requests |-> 0]
  /\ cur = [r \in Requests |-> 0]
  /\ replied = [r \in Requests |-> FALSE]
  /\ awaited = [r \in Requests |-> 0]
  /\ event = NoEvent

(* ---------------------------- declaration ------------------------------- *)
\* The application under test declares, in this order, its commands, its
\* components and its error hook; the server may start after any prefix.

\* Client.load_commands (client.py 82-83)
LoadCommands(c) ==
  /\ ~serving
  /\ c = Cardinality(declared) + 1
  /\ DOMAIN ui_factory = {}
  /\ qualified_commands' = Append(qualified_commands, c)
  /\ declared' = declared \cup {c}
  /\ UNCHANGED <<token, cmdName, serving, cmdId, application_commands, ui_factory,
                 populated_return, global_error_handler>>
  /\ UNCHANGED remoteVars
  /\ UNCHANGED <<pc, iter, cur, replied, awaited, event>>

\* Client.load_commands (client.py 82-83) called while the server runs, for
\* instance from a callback: the method itself never looks at the server
LoadCommandsLate(c) ==
  /\ serving
  /\ c = Cardinality(declared) + 1
  /\ qualified_commands' = Append(qualified_commands, c)
  /\ declared' = declared \cup {c}
  /\ UNCHANGED <<token, cmdName, serving, cmdId, application_commands, ui_factory,
                 populated_return, global_error_handler>>
  /\ UNCHANGED remoteVars
  /\ UNCHANGED <<pc, iter, cur, replied, awaited, event>>

\* What the decorator of Client.command returns when it returns the command
\* (status holds the number of the command)
ReturnedCommand(c) ==
  [kind |-> "command", status |-> c, owner |-> 0, body |-> "", flags |-> 0]

\* client.py 51-80: Client.command(name, ...)(coro).  The command is built,
\* wrapper is called at once and, only if coro is a coroutine function, sets
\* the callback, appends the command and returns it; otherwise wrapper does
\* nothing and returns None.  coro itself is never called.
CommandDecorator(c, iscoroutinefunction) ==
  /\ ~serving
  /\ c = Cardinality(declared) + 1
  /\ DOMAIN ui_factory = {}
  /\ IF iscoroutinefunction
       THEN /\ qualified_commands' = Append(qualified_commands, c)
            /\ declared' = declared \cup {c}
            /\ event' = Event(0, "declare", NoRequest, "", FALSE, 0, <<>>, FALSE,
                              ReturnedCommand(c), <<>>)
       ELSE /\ UNCHANGED <<qualified_commands, declared>>
            /\ event' = Event(0, "declare", NoRequest, "", FALSE, 0, <<>>, FALSE,
                              ReturnedNone, <<>>)
  /\ UNCHANGED <<token, cmdName, serving, cmdId, application_commands, ui_factory,
                 populated_return, global_error_handler>>
  /\ UNCHANGED remoteVars
  /\ UNCHANGED <<pc, iter, cur, replied, awaited>>

\* Client._load_component (client.py 45-46)
LoadComponent(k) ==
  /\ ~serving
  /\ declared = Commands
  /\ global_error_handler = "unset"
  /\ k \notin DOMAIN ui_factory
  /\ \E i \in 1..Len(ComponentIds) :
        /\ ComponentIds[i] = k
        /\ \A j \in 1..(i - 1) : ComponentIds[j] \in DOMAIN ui_factory
  /\ ui_factory' = (k :> ComponentCallback(k)) @@ ui_factory
  /\ UNCHANGED <<token, cmdName, serving, qualified_commands, declared, cmdId, application_commands,
                 populated_return, global_error_handler>>
  /\ UNCHANGED remoteVars
  /\ UNCHANGED <<pc, iter, cur, replied, awaited, event>>

\* The application assigns Client._global_error_handler: a hook, or None
SetErrorHook(h) ==
  /\ ~serving
  /\ DOMAIN ui_factory = {ComponentIds[i] : i \in 1..Len(ComponentIds)}
  /\ global_error_handler = "unset"
  /\ global_error_handler' = h
  /\ UNCHANGED <<token, cmdName, serving, qualified_commands, declared, cmdId, application_commands,
                 ui_factory, populated_return>>
  /\ UNCHANGED remoteVars
  /\ UNCHANGED <<pc, iter, cur, replied, awaited, event>>

(* --------------------------- Client.__call__ ---------------------------- *)
\* client.py 117-121: entry, __init_session (ValueError without a token),
\* then __cache_client awaits its GET.  A new request takes the lowest free
\* task.
Call(r) ==
  /\ pc[r] = "idle"
  /\ \A q \in Requests : q < r => pc[q] # "idle"
  /\ serving' = TRUE
  /\ pc' = [pc EXCEPT ![r] = IF token THEN "cache" ELSE "idle"]
  /\ UNCHANGED clientVars
  /\ UNCHANGED remoteVars
  /\ UNCHANGED <<iter, cur, replied, awaited, event>>

\* client.py 104-109 and 122-124: the head of the loop of __sync_cmds, run
\* with the iterator at index i over the list q.  Either the next command is
\* posted and the task awaits the reply, or the loop is over, the pending list
\* is cleared and the request goes on into handler, which awaits the body.
SyncLoop(r, i, q) ==
  IF i < Len(q)
    THEN /\ iter' = [iter EXCEPT ![r] = i + 1]
         /\ cur' = [cur EXCEPT ![r] = q[i + 1]]
         /\ submitted' = [submitted EXCEPT ![q[i + 1]] =
                            IF @ = "never" THEN "once" ELSE "again"]
         /\ pc' = [pc EXCEPT ![r] = "post"]
         /\ qualified_commands' = q
    ELSE /\ iter' = [iter EXCEPT ![r] = 0]
         /\ cur' = [cur EXCEPT ![r] = 0]
         /\ submitted' = submitted
         /\ pc' = [pc EXCEPT ![r] = "body"]
         /\ qualified_commands' = <<>>

\* client.py 98-101: the GET of __cache_client returns; __sync_cmds starts
CacheClient(r) ==
  /\ pc[r] = "cache"
  /\ SyncLoop(r, 0, qualified_commands)
  /\ UNCHANGED <<token, cmdName, serving, declared, cmdId, application_commands, ui_factory,
                 populated_return, global_error_handler>>
  /\ UNCHANGED <<remoteIds, nextId>>
  /\ UNCHANGED <<replied, awaited, event>>

\* client.py 109-115 without line 115: the id is stored, the command is not
\* indexed
SyncAcceptedNotIndexed(r) ==
  /\ pc[r] = "post"
  /\ \E k \in 1..MaxRemoteIds :
        /\ \/ remoteIds[cur[r]] = <<k>>
           \/ k = nextId + 1
        /\ nextId' = IF k = nextId + 1 THEN k ELSE nextId
        /\ remoteIds' = [remoteIds EXCEPT ![cur[r]] = <<k>>]
        /\ cmdId' = [cmdId EXCEPT ![cur[r]] = <<k>>]
        /\ application_commands' = application_commands
  /\ SyncLoop(r, iter[r], qualified_commands)
  /\ UNCHANGED <<token, cmdName, serving, declared, ui_factory, populated_return,
                 global_error_handler>>
  /\ UNCHANGED <<replied, awaited, event>>

\* client.py 109-115: the remote accepts the command and replies with an id
\* (the id it already holds for that command, or a new one); the id is stored
\* in the command, the command is indexed, and the loop goes on
SyncAccepted(r) ==
  /\ pc[r] = "post"
  /\ \E k \in 1..MaxRemoteIds :
        /\ \/ remoteIds[cur[r]] = <<k>>
           \/ k = nextId + 1
        /\ nextId' = IF k = nextId + 1 THEN k ELSE nextId
        /\ remoteIds' = [remoteIds EXCEPT ![cur[r]] = <<k>>]
        /\ cmdId' = [cmdId EXCEPT ![cur[r]] = <<k>>]
        /\ application_commands' = (k :> cur[r]) @@ application_commands
  /\ SyncLoop(r, iter[r], qualified_commands)
  /\ UNCHANGED <<token, cmdName, serving, declared, ui_factory, populated_return,
                 global_error_handler>>
  /\ UNCHANGED <<replied, awaited, event>>

\* client.py 109-115 with a reply that is taken to carry an id whatever it
\* holds: the loop goes on although the command got no id
SyncRejectedIgnored(r) ==
  /\ pc[r] = "post"
  /\ SyncLoop(r, iter[r], qualified_commands)
  /\ UNCHANGED <<token, cmdName, serving, declared, cmdId, application_commands, ui_factory,
                 populated_return, global_error_handler>>
  /\ UNCHANGED <<remoteIds, nextId>>
  /\ UNCHANGED <<replied, awaited, event>>

\* client.py 110-113: the reply carries no id; ValueError leaves __call__
\* and the request ends without reaching handler
SyncRejected(r) ==
  /\ pc[r] = "post"
  /\ pc' = [pc EXCEPT ![r] = "idle"]
  /\ iter' = [iter EXCEPT ![r] = 0]
  /\ cur' = [cur EXCEPT ![r] = 0]
  /\ event' = Event(r, "sync_error", NoRequest, "", FALSE, 0, <<>>, FALSE,
                    Raised("ValueError"), <<>>)
  /\ UNCHANGED clientVars
  /\ UNCHANGED remoteVars
  /\ UNCHANGED <<serving, replied, awaited>>

(* ------------------------------- handler -------------------------------- *)
\* Values passed to a callback
Arg(tag, n, text, vals) == [tag |-> tag, n |-> n, text |-> text, values |-> vals]
CogArg(c) == Arg("cog", c, "", {})
\* handler 31 with the interaction kept in one variable shared by all
\* requests: a callback gets the interaction of whichever request wrote last
InteractionArgShared(r) == Arg("interaction", NumRequests, "", {})
InteractionArg(r) == Arg("interaction", r, "", {})

\* cmdparse.build_context_menu_param: the single resolved target entity
build_context_menu_param(r) == Arg("target", r, "", {})

\* cmdparse.build_slash_command_prams: one keyword argument per option
build_slash_command_prams(data) ==
  [i \in 1..Len(data.options) |->
     Arg("option", 0, data.options[i].name, {data.options[i].value})]

\* cmdparse.build_select_menu_values: the selected value set
build_select_menu_values(data) ==
  Arg("values", 0, "", {data.values[i] : i \in 1..Len(data.values)})

\* cmdparse.build_modal_params: the submitted value of each declared field;
\* MissingField when a required field was not submitted
ModalBindable(k, data) == ModalFields(k) \subseteq data.fields
build_modal_params(k, data) == <<Arg("fields", 0, "", ModalFields(k))>>

\* What the routing code of handler (lines 33-103) does with the parsed
\* payload up to its first await of user code:
\*   "return"  a response is returned at once
\*   "notimpl" line 40, the reply of interaction.command.response is returned
\*   "invoke"  a callback is awaited with the given arguments
\*   "raise"   an exception is raised inside the try block
\*   "fall"    no branch returns: the function ends and returns None
Step(act, n, resp, fn, args, exc) ==
  [act |-> act, lookups |-> n, resp |-> resp, fn |-> fn, args |-> args, exc |-> exc]
NoCallback == Callback("", 0, "")
Return(n, resp) == Step("return", n, resp, NoCallback, <<>>, "")
Invoke(n, fn, args) == Step("invoke", n, NoResult, fn, args, "")
Raise(n, exc) == Step("raise", n, NoResult, NoCallback, <<>>, exc)
Fall(n) == Step("fall", n, NoResult, NoCallback, <<>>, "")
NotImplementedReply(n) == Step("notimpl", n, NoResult, NoCallback, <<>>, "")

\* handler 50-60: the subcommand named by the first option.  A name missing
\* from the map gives None, and binding or calling None raises TypeError.
RouteSubcommand(r, data, command) ==
  IF data.options[1].name \notin SubcommandCallbacks(command)
    THEN Raise(1, "TypeError")
  ELSE IF HasCog(command)
    THEN Invoke(1, SubcommandCallback(command, data.options[1].name),
                <<CogArg(command), InteractionArg(r)>> \o build_slash_command_prams(data))
    ELSE Invoke(1, SubcommandCallback(command, data.options[1].name),
                <<InteractionArg(r)>> \o build_slash_command_prams(data))

\* handler 41-48 binding the options instead of the target object
RouteContextMenuBindsOptions(r, data, command) ==
  IF HasCog(command)
    THEN Invoke(1, PrimaryCallback(command),
                <<CogArg(command), InteractionArg(r)>> \o build_slash_command_prams(data))
    ELSE Invoke(1, PrimaryCallback(command),
                <<InteractionArg(r)>> \o build_slash_command_prams(data))

\* handler 41-48: a context-menu command gets the target object and nothing
\* from the options
RouteContextMenu(r, data, command) ==
  IF HasCog(command)
    THEN Invoke(1, PrimaryCallback(command),
                <<CogArg(command), InteractionArg(r), build_context_menu_param(r)>>)
    ELSE Invoke(1, PrimaryCallback(command),
                <<InteractionArg(r), build_context_menu_param(r)>>)

\* handler 37-69
RouteCommand(r, data, registry) ==
  IF data.id \notin DOMAIN registry THEN NotImplementedReply(1)
  ELSE LET command == registry[data.id] IN
    IF data.cmdtype # "slash" THEN RouteContextMenu(r, data, command)
    ELSE IF Len(data.options) > 0 /\ data.options[1].type = "subcommand"
      THEN RouteSubcommand(r, data, command)
    ELSE IF HasCog(command)
      THEN Invoke(1, PrimaryCallback(command),
                  <<CogArg(command), InteractionArg(r)>> \o build_slash_command_prams(data))
      ELSE Invoke(1, PrimaryCallback(command),
                  <<InteractionArg(r)>> \o build_slash_command_prams(data))

\* handler 71-83 with the selected values passed to every component callback
RouteComponentAlwaysValues(r, data, factory) ==
  IF data.custom_id \notin DOMAIN factory
    THEN Return(1, Response(404, "component not found!"))
  ELSE IF data.component_type \in {"button", "select_menu"}
    THEN Invoke(1, factory[data.custom_id],
                <<InteractionArg(r), build_select_menu_values(data)>>)
  ELSE Fall(1)

\* handler 71-83
RouteComponent(r, data, factory) ==
  IF data.custom_id \notin DOMAIN factory
    THEN Return(1, Response(404, "component not found!"))
  ELSE IF data.component_type = "button"
    THEN Invoke(1, factory[data.custom_id], <<InteractionArg(r)>>)
  ELSE IF data.component_type = "select_menu"
    THEN Invoke(1, factory[data.custom_id],
                <<InteractionArg(r), build_select_menu_values(data)>>)
  ELSE Fall(1)

\* handler 85-91 with a binding failure swallowed and the callback invoked
\* with the fields that could be bound
RouteModalIgnoresMissing(r, data, factory) ==
  IF data.custom_id \notin DOMAIN factory
    THEN Return(1, Response(404, "component not found!"))
  ELSE Invoke(1, factory[data.custom_id],
              <<InteractionArg(r),
                Arg("fields", 0, "", ModalFields(data.custom_id) \cap data.fields)>>)

\* handler 85-91
RouteModal(r, data, factory) ==
  IF data.custom_id \notin DOMAIN factory
    THEN Return(1, Response(404, "component not found!"))
  ELSE IF ~ModalBindable(data.custom_id, data)
    THEN Raise(1, "MissingField")
  ELSE Invoke(1, factory[data.custom_id],
              <<InteractionArg(r)>> \o build_modal_params(data.custom_id, data))

\* handler 96-98: the option whose name and value go to the callback
AutocompleteOption(data) == data.options[1]

\* handler 92-101 without the check of line 94: the attribute of None is read
RouteAutocompleteUnchecked(r, data, registry) ==
  IF data.id \notin DOMAIN registry THEN Raise(1, "AttributeError")
  ELSE IF Len(data.options) = 0 THEN Raise(1, "IndexError")
  ELSE IF AutocompleteOption(data).value # ""
    THEN Invoke(1, AutocompleteCallback(registry[data.id]),
                <<InteractionArg(r),
                  Arg("name", 0, AutocompleteOption(data).name, {}),
                  Arg("value", 0, AutocompleteOption(data).value, {})>>)
  ELSE Fall(1)

\* handler 92-101
RouteAutocomplete(r, data, registry) ==
  IF data.id \notin DOMAIN registry
    THEN Return(1, Response(404, "command not found!"))
  ELSE IF Len(data.options) = 0 THEN Raise(1, "IndexError")
  ELSE IF AutocompleteOption(data).value # ""
    THEN Invoke(1, AutocompleteCallback(registry[data.id]),
                <<InteractionArg(r),
                  Arg("name", 0, AutocompleteOption(data).name, {}),
                  Arg("value", 0, AutocompleteOption(data).value, {})>>)
  ELSE Fall(1)

\* handler 33-103 with the ping compared against the wrong enum member: it
\* is looked up as a command
RoutePingAsCommand(r, data, registry, factory) ==
  IF data.type \in {"ping", "app_command"} THEN RouteCommand(r, data, registry)
  ELSE IF data.type = "component" THEN RouteComponent(r, data, factory)
  ELSE IF data.type = "modal_submit" THEN RouteModal(r, data, factory)
  ELSE IF data.type = "autocomplete" THEN RouteAutocomplete(r, data, registry)
  ELSE Return(0, Response(300, "unhandled interaction type"))

\* handler 33-101 without the else branch of lines 102-103: a request of
\* another kind matches no branch and the function returns None
RouteWithoutElse(r, data, registry, factory) ==
  IF data.type = "ping" THEN Return(0, Response(200, "pong"))
  ELSE IF data.type = "app_command" THEN RouteCommand(r, data, registry)
  ELSE IF data.type = "component" THEN RouteComponent(r, data, factory)
  ELSE IF data.type = "modal_submit" THEN RouteModal(r, data, factory)
  ELSE IF data.type = "autocomplete" THEN RouteAutocomplete(r, data, registry)
  ELSE Fall(0)

\* handler 33-103
Route(r, data, registry, factory) ==
  IF data.type = "ping" THEN Return(0, Response(200, "pong"))
  ELSE IF data.type = "app_command" THEN RouteCommand(r, data, registry)
  ELSE IF data.type = "component" THEN RouteComponent(r, data, factory)
  ELSE IF data.type = "modal_submit" THEN RouteModal(r, data, factory)
  ELSE IF data.type = "autocomplete" THEN RouteAutocomplete(r, data, registry)
  ELSE Return(0, Response(300, "unhandled interaction type"))

\* handler 104-106: the except clause.  Reading an attribute that was never
\* assigned raises AttributeError out of handler; a falsy hook is skipped; a
\* hook is awaited with the exception and the request's data.  In the last
\* two cases the function then ends without a return statement.
ExceptResult(hook) == IF hook = "unset" THEN Raised("AttributeError") ELSE ReturnedNone
ExceptHook(hook, exc, r) == IF hook = "hook" THEN <<[exc |-> exc, data |-> r]>> ELSE <<>>

\* `return request.app._populated_return` (also the `if` of lines 78 and 82):
\* the response in the slot, whoever populated it
SlotRead(slot) ==
  [kind |-> "slot", status |-> 200, owner |-> slot.owner, body |-> slot.body,
   flags |-> slot.flags]

\* params.handle_send_params: the payload of a message reply.  Each flag is
\* one bit, so or-ing two different flags adds them.
EphemeralFlag == 64
SuppressEmbedsFlag == 4
handle_send_params(content, ephemeral, suppress_embeds) ==
  [content |-> content,
   flags |-> (IF ephemeral THEN EphemeralFlag ELSE 0)
             + (IF suppress_embeds THEN SuppressEmbedsFlag ELSE 0)]

\* interaction.response(...): the reply populates the application's slot
Populate(r, payload) ==
  [set |-> TRUE, owner |-> r, body |-> payload.content, flags |-> payload.flags]

\* handler 40 with the ephemeral flag forgotten
NotImplementedPublic == handle_send_params("command not implemented", FALSE, FALSE)

\* handler 40: response(content='command not implemented', ephemeral=True)
NotImplementedPayload == handle_send_params("command not implemented", TRUE, FALSE)

\* The task of request r ends: a response it left in the slot is from now on
\* the response of an earlier request
Retire(slot, r) == IF slot.set /\ slot.owner = r THEN [slot EXCEPT !.owner = 0] ELSE slot

\* handler 22-29 with an except clause that lets a bad signature through
VerdictUnchecked(input) ==
  IF Verification(input) = "BadSignatureError" THEN "pass" ELSE Verification(input)

\* handler 22-35 with the ping answered ahead of the verification
VerdictPingUnverified(input) ==
  IF Json(input.body).type = "ping" THEN "pass" ELSE Verification(input)

\* handler 22-29 and 30-32 (the body is parsed only in the else branch)
Verdict(input) == Verification(input)

\* handler 21-103 from the arrival of the body to the first await of user
\* code: verification, parsing, routing
HandleFrom(r, inputs) ==
  /\ pc[r] = "body"
  /\ \E input \in inputs :
       LET v == Verdict(input)
           data == Json(input.body)
           s == Route(r, data, application_commands, ui_factory)
       IN
       CASE v = "BadSignatureError" ->
              /\ event' = Event(r, "handle", input, v, FALSE, 0, <<>>, FALSE,
                                Response(401, "BadSignature"), <<>>)
              /\ pc' = [pc EXCEPT ![r] = "idle"]
              /\ UNCHANGED <<replied, awaited, populated_return>>
         [] v = "ValueError" ->
              /\ event' = Event(r, "handle", input, v, FALSE, 0, <<>>, FALSE,
                                Raised("ValueError"), <<>>)
              /\ pc' = [pc EXCEPT ![r] = "idle"]
              /\ UNCHANGED <<replied, awaited, populated_return>>
         [] v = "pass" /\ s.act = "return" ->
              /\ event' = Event(r, "handle", input, v, TRUE, s.lookups, <<>>, FALSE,
                                s.resp, <<>>)
              /\ pc' = [pc EXCEPT ![r] = "idle"]
              /\ UNCHANGED <<replied, awaited, populated_return>>
         [] v = "pass" /\ s.act = "notimpl" ->
              /\ event' = Event(r, "handle", input, v, TRUE, s.lookups, <<>>, TRUE,
                                SlotRead(Populate(r, NotImplementedPayload)), <<>>)
              /\ populated_return' = Retire(Populate(r, NotImplementedPayload), r)
              /\ pc' = [pc EXCEPT ![r] = "idle"]
              /\ UNCHANGED <<replied, awaited>>
         [] v = "pass" /\ s.act = "invoke" ->
              /\ event' = Event(r, "handle", input, v, TRUE, s.lookups,
                                <<[fn |-> s.fn, args |-> s.args]>>, FALSE, NoResult, <<>>)
              /\ pc' = [pc EXCEPT ![r] = "callback"]
              /\ awaited' = [awaited EXCEPT ![r] = s.fn.cmd]
              /\ UNCHANGED <<replied, populated_return>>
         [] v = "pass" /\ s.act = "raise" ->
              /\ event' = Event(r, "handle", input, v, TRUE, s.lookups, <<>>, FALSE,
                                ExceptResult(global_error_handler),
                                ExceptHook(global_error_handler, s.exc, r))
              /\ pc' = [pc EXCEPT ![r] = "idle"]
              /\ UNCHANGED <<replied, awaited, populated_return>>
         [] v = "pass" /\ s.act = "fall" ->
              /\ event' = Event(r, "handle", input, v, TRUE, s.lookups, <<>>, FALSE,
                                ReturnedNone, <<>>)
              /\ pc' = [pc EXCEPT ![r] = "idle"]
              /\ UNCHANGED <<replied, awaited, populated_return>>
  /\ UNCHANGED <<token, cmdName, serving, qualified_commands, declared, cmdId, application_commands,
                 ui_factory, global_error_handler>>
  /\ UNCHANGED remoteVars
  /\ UNCHANGED <<iter, cur>>

\* handler, for any request the platform or an attacker can send
Handle(r) == HandleFrom(r, Inputs)

\* handler, for the requests of a platform that only pings and runs command 1
HandleStartup(r) == HandleFrom(r, StartupInputs)

\* The awaited callback replies through its interaction (at most one reply
\* per interaction takes effect)
CallbackReply(r) ==
  /\ pc[r] = "callback"
  /\ ~replied[r]
  /\ replied' = [replied EXCEPT ![r] = TRUE]
  /\ populated_return' = Populate(r, handle_send_params("reply", FALSE, FALSE))
  /\ UNCHANGED <<token, cmdName, serving, qualified_commands, declared, cmdId, application_commands,
                 ui_factory, global_error_handler>>
  /\ UNCHANGED remoteVars
  /\ UNCHANGED <<pc, iter, cur, awaited, event>>

\* What handler does once the awaited callback has returned: lines 45, 48, 56,
\* 60, 65, 69, 91 and 101 return the slot; lines 78-79 and 82-83 return it if
\* it is truthy (a response object always is).  A slot nobody ever assigned
\* raises AttributeError into the except clause.
AfterCallback(slot, hook) ==
  IF slot.set THEN SlotRead(slot) ELSE ExceptResult(hook)

\* handler 56/60 without the return statement: when the awaited callback
\* returns, handler goes on to lines 62-69 and awaits the primary callback
CallbackReturnFallsThrough(r) ==
  /\ pc[r] = "callback"
  /\ event' = Event(r, "handle", NoRequest, "pass", TRUE, 1,
                    <<[fn |-> PrimaryCallback(awaited[r]), args |-> <<InteractionArg(r)>>]>>,
                    replied[r], NoResult, <<>>)
  /\ UNCHANGED <<token, cmdName, serving, qualified_commands, declared, cmdId, application_commands,
                 ui_factory, populated_return, global_error_handler>>
  /\ UNCHANGED remoteVars
  /\ UNCHANGED <<pc, iter, cur, replied, awaited>>

\* The awaited callback returns and handler finishes
CallbackReturn(r) ==
  /\ pc[r] = "callback"
  /\ event' = Event(r, "return", NoRequest, "pass", TRUE, 1, <<>>, replied[r],
                    AfterCallback(populated_return, global_error_handler),
                    IF populated_return.set THEN <<>>
                    ELSE ExceptHook(global_error_handler, "AttributeError", r))
  /\ populated_return' = Retire(populated_return, r)
  /\ pc' = [pc EXCEPT ![r] = "idle"]
  /\ replied' = [replied EXCEPT ![r] = FALSE]
  /\ awaited' = [awaited EXCEPT ![r] = 0]
  /\ UNCHANGED <<token, cmdName, serving, qualified_commands, declared, cmdId, application_commands,
                 ui_factory, global_error_handler>>
  /\ UNCHANGED remoteVars
  /\ UNCHANGED <<iter, cur>>

\* The awaited callback raises; the except clause of handler runs
CallbackRaise(r) ==
  /\ pc[r] = "callback"
  /\ event' = Event(r, "raise", NoRequest, "pass", TRUE, 1, <<>>, replied[r],
                    ExceptResult(global_error_handler),
                    ExceptHook(global_error_handler, "HandlerException", r))
  /\ populated_return' = Retire(populated_return, r)
  /\ pc' = [pc EXCEPT ![r] = "idle"]
  /\ replied' = [replied EXCEPT ![r] = FALSE]
  /\ awaited' = [awaited EXCEPT ![r] = 0]
  /\ UNCHANGED <<token, cmdName, serving, qualified_commands, declared, cmdId, application_commands,
                 ui_factory, global_error_handler>>
  /\ UNCHANGED remoteVars
  /\ UNCHANGED <<iter, cur>>

Declare ==
  \/ \E c \in Commands : LoadCommands(c)
  \/ \E k \in {"btn", "sel", "mod"} : LoadComponent(k)
  \/ \E h \in {"none", "hook"} : SetErrorHook(h)

Startup ==
  \/ \E r \in Requests : Call(r)
  \/ \E r \in Requests : CacheClient(r)
  \/ \E r \in Requests : SyncAccepted(r)
  \/ \E r \in Requests : SyncRejected(r)

Callbacks ==
  \/ \E r \in Requests : CallbackReply(r)
  \/ \E r \in Requests : CallbackReturn(r)
  \/ \E r \in Requests : CallbackRaise(r)

\* The whole program
Next ==
  \/ Declare
  \/ Startup
  \/ \E r \in Requests : Handle(r)
  \/ Callbacks

Spec == Init /\ [][Next]_vars

\* Declaration and startup under traffic: the whole program, with the
\* requests limited to StartupInputs
NextSync ==
  \/ Declare
  \/ Startup
  \/ \E r \in Requests : HandleStartup(r)
  \/ Callbacks

SpecSync == Init /\ [][NextSync]_vars

\* Declaration at any time: as SpecSync, and load_commands may also be called
\* while requests are in flight
NextLate ==
  \/ Declare
  \/ \E c \in Commands : LoadCommandsLate(c)
  \/ Startup
  \/ \E r \in Requests : HandleStartup(r)
  \/ Callbacks

SpecLate == Init /\ [][NextLate]_vars

\* The names an application may give its commands
Names == {OwnName(c) : c \in Commands}

\* Client.__init__ for an application whose commands have any names, equal
\* ones included
InitDeclare ==
  /\ token = TRUE
  /\ cmdName \in [Commands -> Names]
  /\ serving = FALSE
  /\ qualified_commands = <<>>
  /\ declared = {}
  /\ cmdId = [c \in Commands |-> None]
  /\ application_commands = <<>>
  /\ ui_factory = <<>>
  /\ populated_return = Unset
  /\ global_error_handler = "unset"
  /\ remoteIds = [c \in Commands |-> None]
  /\ nextId = 0
  /\ submitted = [c \in Commands |-> "never"]
  /\ pc = [r \in Requests |-> "idle"]
  /\ iter = [r \in Requests |-> 0]
  /\ cur = [r \in Requests |-> 0]
  /\ replied = [r \in Requests |-> FALSE]
  /\ awaited = [r \in Requests |-> 0]
  /\ event = NoEvent

\* Declaration time: commands are declared with the decorator or with
\* load_commands, then the components and the error hook
NextDeclare ==
  \/ \E c \in Commands : \E f \in BOOLEAN : CommandDecorator(c, f)
  \/ Declare

SpecDeclare == InitDeclare /\ [][NextDeclare]_vars

\* The server after the startup of an application that declared every
\* command and component: every command is synchronised, the pending list is
\* cleared, and the error hook is a hook, None, or was never assigned
InitServe ==
  /\ token = TRUE
  /\ cmdName = [c \in Commands |-> OwnName(c)]
  /\ serving = TRUE
  /\ qualified_commands = <<>>
  /\ declared = Commands
  /\ cmdId = [c \in Commands |-> <<c>>]
  /\ application_commands = [c \in Commands |-> c]
  /\ ui_factory = [k \in {"btn", "sel", "mod"} |-> ComponentCallback(k)]
  /\ populated_return = Unset
  /\ global_error_handler \in {"unset", "none", "hook"}
  /\ remoteIds = [c \in Commands |-> <<c>>]
  /\ nextId = NumCommands
  /\ submitted = [c \in Commands |-> "once"]
  /\ pc = [r \in Requests |-> "idle"]
  /\ iter = [r \in Requests |-> 0]
  /\ cur = [r \in Requests |-> 0]
  /\ replied = [r \in Requests |-> FALSE]
  /\ awaited = [r \in Requests |-> 0]
  /\ event = NoEvent

NextServe ==
  \/ \E r \in Requests : Call(r)
  \/ \E r \in Requests : CacheClient(r)
  \/ \E r \in Requests : Handle(r)
  \/ Callbacks

SpecServe == InitServe /\ [][NextServe]_vars

(* ============================== claims ================================== *)
\* A command is synchronised: it carries a remote id and is indexed under it
Synced(c) ==
  /\ cmdId[c] # None
  /\ cmdId[c][1] \in DOMAIN application_commands
  /\ application_commands[cmdId[c][1]] = c

\* Some request is inside handler
InHandler(r) == pc[r] \in {"body", "callback"}

\* The latest handler step was the arrival and routing of a body
Handled == event.step = "handle"

\* C1: a request whose signature does not verify ends with exactly the 401
\* response; its body is not parsed, no registry lookup is made and no
\* callback is invoked.
C1_TamperedIsUnauthorized ==
  (Handled /\ Verification(event.req) = "BadSignatureError") =>
     /\ event.result = Response(401, "BadSignature")
     /\ ~event.parsed
     /\ event.lookups = 0
     /\ event.calls = <<>>

\* A tampered body that names a registered command was answered with 401
C1_Witness ==
  /\ Handled
  /\ event.req.body = <<2>>
  /\ event.req.signature = Signed("t1", <<3>>).signature
  /\ Json(event.req.body).id \in DOMAIN application_commands
  /\ event.result.status = 401

\* C2: a request whose signature header or timestamp header is missing, or
\* whose signature is malformed or wrong, always ends with the 401 response
\* and is never parsed.
BadOrMissingSignature(request) ==
  \/ ~request.signature.present
  \/ ~request.timestamp.present
  \/ ~IsHex(request.signature.text)
  \/ Verification(request) # "pass"

C2_BadOrMissingIs401 ==
  (Handled /\ BadOrMissingSignature(event.req)) =>
     /\ event.result = Response(401, "BadSignature")
     /\ ~event.parsed

\* C3: when a request waits in handler to be routed, every declared command
\* carries a remote id and is indexed in application_commands under that id.
C3_SyncedBeforeFirstRequest ==
  \A r \in Requests : pc[r] = "body" => \A c \in declared : Synced(c)

\* A request waits in handler and the whole catalog was declared and synced
C3_Witness ==
  /\ \E r \in Requests : pc[r] = "body"
  /\ declared = Commands
  /\ \A c \in Commands : Synced(c)
  /\ event.step = "none"

\* C4: every declared command is submitted to the remote at most once, and
\* the pending list is empty once a request has gone past synchronisation.
C4_SubmittedAtMostOnce ==
  /\ \A c \in Commands : submitted[c] # "again"
  /\ (\E r \in Requests : InHandler(r)) => qualified_commands = <<>>

\* C5: while some declared command is unsynchronised (the remote rejected
\* it, or it was not reached yet), no request is in handler and none has been
\* routed; a rejection ends its request with the ValueError.
C5_NoTrafficOnPartialCatalog ==
  /\ (\E c \in declared : ~Synced(c)) =>
        /\ \A r \in Requests : ~InHandler(r)
        /\ event.step \in {"none", "sync_error"}
  /\ event.step = "sync_error" => event.result = Raised("ValueError")

\* The remote rejected a command: a declared command has no id, the request
\* ended with the error and nobody is in handler
C5_Witness ==
  /\ event.step = "sync_error"
  /\ \E c \in declared : cmdId[c] = None
  /\ \E c \in declared : Synced(c)
  /\ \A r \in Requests : ~InHandler(r)

\* C6: the response handler returns for a request was populated by that same
\* request, never by a concurrent or an earlier one.
C6_OwnResponse ==
  event.result.kind = "slot" => event.result.owner = event.r

\* C7: an exception raised by an invoked callback is caught in handler and
\* forwarded to the error hook with the request's data; it never leaves
\* handler.
C7_ExceptionForwarded ==
  event.step = "raise" =>
     /\ event.hook = <<[exc |-> "HandlerException", data |-> event.r]>>
     /\ event.result.kind # "raised"

\* C8: when an invoked callback raises, handler still returns a response.
C8_ResponseAfterException ==
  event.step = "raise" => event.result.kind \in {"response", "slot"}

\* C9: a command invocation whose first option is a subcommand the resolved
\* command does not have ends with a 404 response and no callback is invoked.
AbsentSubcommand(request) ==
  LET data == Json(request.body) IN
  /\ Verification(request) = "pass"
  /\ data.type = "app_command"
  /\ data.cmdtype = "slash"
  /\ data.id \in DOMAIN application_commands
  /\ Len(data.options) > 0
  /\ data.options[1].type = "subcommand"
  /\ data.options[1].name \notin SubcommandCallbacks(application_commands[data.id])

C9_AbsentSubcommandIs404 ==
  (Handled /\ AbsentSubcommand(event.req)) =>
     /\ event.result.kind = "response"
     /\ event.result.status = 404
     /\ event.calls = <<>>

\* C10: the autocomplete callback is invoked with the name and the partial
\* value of the focused option, wherever that option stands in the list.
FocusedOption(data) ==
  data.options[CHOOSE i \in 1..Len(data.options) : data.options[i].focused]

C10_AutocompleteGetsFocused ==
  (Handled /\ Json(event.req.body).type = "autocomplete" /\ event.calls # <<>>) =>
     LET data == Json(event.req.body) IN
     event.calls[1].args = <<InteractionArg(event.r),
                             Arg("name", 0, FocusedOption(data).name, {}),
                             Arg("value", 0, FocusedOption(data).value, {})>>

\* The request passed verification and names a command id or a custom id
\* that the registry does not hold
UnknownReference(request) ==
  LET data == Json(request.body) IN
  /\ Verification(request) = "pass"
  /\ \/ /\ data.type \in {"app_command", "autocomplete"}
        /\ data.id \notin DOMAIN application_commands
     \/ /\ data.type \in {"component", "modal_submit"}
        /\ data.custom_id \notin DOMAIN ui_factory

\* C11 as stated: whatever the kind of the request (command invocation,
\* autocomplete, component, modal), an unknown id ends with the 404 response
\* and no callback is invoked.
C11_UnknownIdIs404 ==
  (Handled /\ UnknownReference(event.req)) =>
     /\ event.result.kind = "response"
     /\ event.result.status = 404
     /\ event.calls = <<>>

\* C11: an unknown id never invokes a callback; an autocomplete request, a
\* component activation and a modal submission end with the 404 response, a
\* command invocation ends with the ephemeral "command not implemented"
\* reply.
C11_UnknownIdNotFoundOrNotImplemented ==
  (Handled /\ UnknownReference(event.req)) =>
     /\ event.calls = <<>>
     /\ IF Json(event.req.body).type = "app_command"
          THEN event.result = SlotRead(Populate(event.r, NotImplementedPayload))
          ELSE event.result.kind = "response" /\ event.result.status = 404

\* A modal submission with an unknown custom id was answered with 404
C11_Witness ==
  /\ Handled
  /\ UnknownReference(event.req)
  /\ Json(event.req.body).type = "modal_submit"
  /\ event.result = Response(404, "component not found!")

\* C12: a slash command invocation whose id is not in application_commands
\* ends at once with the ephemeral reply "command not implemented": nothing is
\* bound, no callback is invoked, no exception is raised.
C12_UnknownCommandNotImplemented ==
  (/\ Handled
   /\ UnknownReference(event.req)
   /\ Json(event.req.body).type = "app_command"
   /\ Json(event.req.body).cmdtype = "slash") =>
     /\ event.result.kind = "slot"
     /\ event.result.body = "command not implemented"
     /\ event.result.flags = EphemeralFlag
     /\ event.calls = <<>>
     /\ event.hook = <<>>
     /\ pc[event.r] # "callback"

\* A slash command with an unknown id got the ephemeral reply while its
\* task made one registry lookup and nothing else
C12_Witness ==
  /\ Handled
  /\ Json(event.req.body).type = "app_command"
  /\ Json(event.req.body).id \notin DOMAIN application_commands
  /\ event.lookups = 1
  /\ event.result.flags = EphemeralFlag

\* C13: every callback invoked on behalf of a command (primary, subcommand,
\* context-menu or autocomplete callback) gets the command's cog as its first
\* argument and the interaction as its second when the command has a cog, and
\* the interaction as its first argument when it has none.
C13_CogFirst ==
  (Handled /\ event.calls # <<>> /\ event.calls[1].fn.kind \in {"cmd", "sub", "auto"}) =>
     LET call == event.calls[1] IN
     IF HasCog(call.fn.cmd)
       THEN call.args[1] = CogArg(call.fn.cmd) /\ call.args[2] = InteractionArg(event.r)
       ELSE call.args[1] = InteractionArg(event.r)

\* The request is a verified command invocation of a registered command
KnownCommand(request) ==
  /\ Verification(request) = "pass"
  /\ Json(request.body).type = "app_command"
  /\ Json(request.body).id \in DOMAIN application_commands

\* C14: whatever other requests are in flight, a command invocation invokes
\* a callback of the command indexed under its own id, and every interaction
\* and target passed to that callback is the request's own.
C14_NoCrossTalk ==
  (Handled /\ KnownCommand(event.req) /\ event.calls # <<>>) =>
     LET call == event.calls[1] IN
     /\ call.fn.cmd = application_commands[Json(event.req.body).id]
     /\ awaited[event.r] = call.fn.cmd
     /\ \A i \in 1..Len(call.args) :
          call.args[i].tag \in {"interaction", "target"} => call.args[i].n = event.r
     /\ \E i \in 1..Len(call.args) : call.args[i] = InteractionArg(event.r)

\* A command invocation was routed to its command while another request was
\* inside the callback of a different command
C14_Witness ==
  /\ Handled
  /\ KnownCommand(event.req)
  /\ event.calls # <<>>
  /\ \E other \in Requests :
       /\ other # event.r
       /\ pc[other] = "callback"
       /\ awaited[other] \in Commands
       /\ awaited[other] # event.calls[1].fn.cmd

\* Some request has been served: handler has returned or raised for it
Served == event.step \in {"handle", "return", "raise"} /\ event.result.kind # "pending"

\* C15: once a request has been served, application_commands, ui_factory and
\* the remote id of every command are never modified again.
C15_RegistryFrozenAfterFirstServe ==
  [][Served => /\ application_commands' = application_commands
               /\ ui_factory' = ui_factory
               /\ cmdId' = cmdId]_vars

\* handler did something with the request beyond checking its signature: it
\* parsed the body, looked something up, invoked a callback, or produced a
\* reply other than the 401 response
ActedOn(e) ==
  \/ e.parsed
  \/ e.lookups > 0
  \/ e.calls # <<>>
  \/ e.result.kind \in {"response", "slot"} /\ e.result.status # 401

\* C16: for a request of any kind, ping included, the body is parsed, a
\* registry is read, a callback is invoked or a reply other than 401 is
\* produced only after the signature of that request has verified.
C16_VerifiedBeforeAnything ==
  (Handled /\ ActedOn(event)) => Verification(event.req) = "pass"

\* A ping whose signature does not verify was answered with 401, unparsed
C16_Witness ==
  /\ Handled
  /\ event.req.body = <<1>>
  /\ Json(event.req.body).type = "ping"
  /\ Verification(event.req) = "BadSignatureError"
  /\ ~ActedOn(event)
  /\ event.result.status = 401

\* The step that answers the verified ping waiting in task r
PingAnswered(r) ==
  /\ pc[r] = "body"
  /\ pc'[r] = "idle"
  /\ event'.r = r
  /\ event'.step = "handle"
  /\ event'.verdict = "pass"
  /\ Json(event'.req.body).type = "ping"

\* C17: a verified ping is answered with the fixed pong response, status 200,
\* without a registry lookup and without a callback, and answering it changes
\* nothing in the application: the registry, the ids, the response slot, the
\* error hook and every other task stay as they were, so a second identical
\* ping meets the same state and gets the same reply.
C17_PingIsPongAndIdempotent ==
  [][\A r \in Requests : PingAnswered(r) =>
       /\ event'.result = Response(200, "pong")
       /\ event'.lookups = 0
       /\ event'.calls = <<>>
       /\ UNCHANGED clientVars
       /\ UNCHANGED remoteVars
       /\ UNCHANGED <<serving, iter, cur, replied, awaited>>
       /\ \A q \in Requests : q # r => pc'[q] = pc[q]]_vars

\* A verified ping was answered with the pong while another request was
\* inside its callback and a response stood in the slot
C17_Witness ==
  /\ Handled
  /\ Verification(event.req) = "pass"
  /\ Json(event.req.body).type = "ping"
  /\ event.result = Response(200, "pong")
  /\ populated_return.set
  /\ \E other \in Requests : other # event.r /\ pc[other] = "callback"

\* The request is a verified component activation
ComponentActivation(request) ==
  /\ Verification(request) = "pass"
  /\ Json(request.body).type = "component"

\* C18: a component activation is resolved by its custom id in ui_factory.
\* An unknown custom id ends with the 404 response and no callback; a button
\* invokes the registered callback with the interaction alone; a select menu
\* invokes it with the interaction and the set of values selected in that
\* request.
C18_ComponentDispatch ==
  (Handled /\ ComponentActivation(event.req)) =>
     LET data == Json(event.req.body) IN
     IF data.custom_id \notin DOMAIN ui_factory
       THEN /\ event.result = Response(404, "component not found!")
            /\ event.calls = <<>>
     ELSE IF data.component_type = "button"
       THEN event.calls = <<[fn |-> ui_factory[data.custom_id],
                             args |-> <<InteractionArg(event.r)>>]>>
     ELSE IF data.component_type = "select_menu"
       THEN event.calls =
              <<[fn |-> ui_factory[data.custom_id],
                 args |-> <<InteractionArg(event.r),
                            Arg("values", 0, "",
                                {data.values[i] : i \in 1..Len(data.values)})>>]>>
     ELSE TRUE

\* A select menu's callback was invoked with the two values selected
C18_Witness ==
  /\ Handled
  /\ ComponentActivation(event.req)
  /\ Json(event.req.body).component_type = "select_menu"
  /\ event.calls # <<>>
  /\ event.calls[1].fn = ComponentCallback("sel")
  /\ event.calls[1].args[2].values = {"red", "blue"}

\* The request is a verified submission of a registered modal that leaves
\* out a field the modal declares
MissingField(request) ==
  LET data == Json(request.body) IN
  /\ Verification(request) = "pass"
  /\ data.type = "modal_submit"
  /\ data.custom_id \in DOMAIN ui_factory
  /\ ~(ModalFields(data.custom_id) \subseteq data.fields)

\* C19: a modal submission that omits a declared field fails binding, and
\* the modal's callback is not invoked for that request.
C19_MissingFieldNeverInvokes ==
  (Handled /\ MissingField(event.req)) =>
     /\ event.calls = <<>>
     /\ pc[event.r] # "callback"
     /\ event.result.kind \notin {"pending", "slot"}

\* A submission without the declared field "reason" ended in the error hook
\* with MissingField
C19_Witness ==
  /\ Handled
  /\ MissingField(event.req)
  /\ "reason" \in ModalFields(Json(event.req.body).custom_id)
  /\ event.hook = <<[exc |-> "MissingField", data |-> event.r]>>

\* C20: a context-menu invocation (data type other than slash) of a
\* registered command invokes the command's primary callback with the
\* interaction followed by exactly one argument, the target; the options of
\* the payload are not bound and no subcommand is resolved, whatever options
\* the payload carries.
C20_ContextMenuGetsTargetOnly ==
  (Handled /\ KnownCommand(event.req) /\ Json(event.req.body).cmdtype # "slash") =>
     LET command == application_commands[Json(event.req.body).id]
         bound == <<InteractionArg(event.r), Arg("target", event.r, "", {})>>
     IN
     event.calls = <<[fn |-> PrimaryCallback(command),
                      args |-> IF HasCog(command) THEN <<CogArg(command)>> \o bound
                               ELSE bound]>>

\* A context-menu invocation whose payload carries a subcommand option
\* invoked the primary callback with the target alone
C20_Witness ==
  /\ Handled
  /\ KnownCommand(event.req)
  /\ Json(event.req.body).cmdtype # "slash"
  /\ Len(Json(event.req.body).options) > 0
  /\ Json(event.req.body).options[1].type = "subcommand"
  /\ event.calls # <<>>
  /\ event.calls[1].fn.kind = "cmd"
  /\ Len(event.calls[1].args) = 2

\* The interaction kinds handler has a branch for
RecognizedKinds == {"ping", "app_command", "component", "modal_submit", "autocomplete"}

\* C21: a verified interaction of a kind other than ping, command
\* invocation, component activation, modal submission and autocomplete ends
\* with the "unhandled interaction type" response, status 300; no registry is
\* read and no callback is invoked.
C21_UnhandledKindIs300 ==
  (/\ Handled
   /\ Verification(event.req) = "pass"
   /\ Json(event.req.body).type \notin RecognizedKinds) =>
     /\ event.result = Response(300, "unhandled interaction type")
     /\ event.lookups = 0
     /\ event.calls = <<>>
     /\ pc[event.r] # "callback"

\* A verified interaction of an unrecognized kind was answered with 300
\* while a response of another request stood in the slot
C21_Witness ==
  /\ Handled
  /\ Verification(event.req) = "pass"
  /\ Json(event.req.body).type = "other"
  /\ event.result.status = 300
  /\ populated_return.set

\* What one step of handler may invoke: at most one callback, and for a
\* slash invocation whose first option is a subcommand that callback is the
\* subcommand's, not the command's primary one
OneDispatch(e) ==
  /\ Len(e.calls) <= 1
  /\ (/\ e.calls # <<>>
      /\ e.req # NoRequest
      /\ Json(e.req.body).type = "app_command"
      /\ Json(e.req.body).cmdtype = "slash"
      /\ Len(Json(e.req.body).options) > 0
      /\ Json(e.req.body).options[1].type = "subcommand") => e.calls[1].fn.kind = "sub"

\* C23: a request invokes at most one registered callback, at most once: a
\* step of handler invokes at most one callback, and once a task awaits a
\* callback no later step of that task invokes another; when the callback
\* ends, the task ends.
C23_AtMostOneCallback ==
  [][/\ OneDispatch(event')
     /\ \A r \in Requests :
          pc[r] = "callback" =>
            /\ pc'[r] \in {"callback", "idle"}
            /\ (event' # event /\ event'.r = r) => event'.calls = <<>>]_vars

\* A subcommand invocation invoked the subcommand's callback alone and its
\* task awaits it
C23_Witness ==
  /\ Handled
  /\ event.calls = <<[fn |-> SubcommandCallback(1, "kick"),
                      args |-> <<InteractionArg(event.r)>>
                               \o build_slash_command_prams(Json(event.req.body))]>>
  /\ pc[event.r] = "callback"
  /\ awaited[event.r] = 1

\* A verified request of a recognized kind came to its end and no callback
\* and no binding raised: either the awaited callback returned, or the
\* routing code came to its end without awaiting or raising anything
HandlerCompleted(e) ==
  \/ e.step = "return"
  \/ /\ e.step = "handle"
     /\ e.verdict = "pass"
     /\ Json(e.req.body).type \in RecognizedKinds
     /\ Route(e.r, Json(e.req.body), application_commands, ui_factory).act
          \in {"return", "notimpl", "fall"}

\* C24: a verified interaction of a recognized kind whose callback returns
\* without raising (or that needs no callback) ends with handler returning a
\* response, also when the callback never replied, when a component is
\* neither a button nor a select menu, and when the autocomplete value is
\* empty.
C24_AlwaysAResponse ==
  HandlerCompleted(event) => event.result.kind \in {"response", "slot"}

\* Command c stands in the pending list
Pending(c) == \E i \in 1..Len(qualified_commands) : qualified_commands[i] = c

\* C25: a declared command leaves the pending list only after it has been
\* submitted to the remote and indexed in application_commands; in
\* particular the clear() that ends one pass never discards a command that no
\* pass has submitted.
C25_NoCommandLost ==
  \A c \in declared : ~Pending(c) => (submitted[c] # "never" /\ Synced(c))

\* C26: every key of application_commands maps to a command whose current
\* remote id is that key, and no command is indexed under two keys.
C26_IndexConsistent ==
  /\ \A k \in DOMAIN application_commands : cmdId[application_commands[k]] = <<k>>
  /\ \A k \in DOMAIN application_commands : \A j \in DOMAIN application_commands :
       application_commands[k] = application_commands[j] => k = j

\* Commands c and d are declared under the same name, one of them flat (a
\* primary callback only), the other with subcommands
Conflict(c, d) ==
  /\ c # d
  /\ cmdName[c] = cmdName[d]
  /\ (SubcommandCallbacks(c) = {}) # (SubcommandCallbacks(d) = {})

\* C22: a registration that would put a command next to one it conflicts
\* with (same name, one flat, one with subcommands) is rejected: the pending
\* catalog never grows by a command that conflicts with one it holds.
C22_ConflictRejected ==
  [][Len(qualified_commands') > Len(qualified_commands) =>
       \A i \in 1..Len(qualified_commands) :
         ~Conflict(qualified_commands'[Len(qualified_commands')], qualified_commands[i])]_vars

\* C27: a declaration with the Client.command decorator invokes no callback,
\* appends exactly one command to the pending catalog and returns that
\* command, whatever callable is decorated.
C27_DecoratorAppendsOne ==
  [][(event'.step = "declare" /\ event' # event) =>
       /\ event'.calls = <<>>
       /\ pc' = pc
       /\ event'.result.kind = "command"
       /\ qualified_commands' = Append(qualified_commands, event'.result.status)]_vars

====
